---- MODULE Spec2Model ----
(***************************************************************************)
(* The streaming decoders of wit-ai-rs: WitClient::dictation               *)
(* (src/src/dictation.rs) and WitClient::speech (src/src/speech.rs).       *)
(* A response body arrives as byte chunks; the closure given to            *)
(* stream.map keeps a buffer, cuts it at every CR LF, drains what it cut,  *)
(* tries the rest as a last document when it ends in LF '}', and the       *)
(* flattened stream hands the items to the caller one at a time.           *)
(* Bytes are integers 0..255; documents are real JSON texts.               *)
(***************************************************************************)
EXTENDS Integers, Sequences, FiniteSets, TLC

(***************************************************************************)
(* Bytes                                                                   *)
(***************************************************************************)
Lower == <<"a","b","c","d","e","f","g","h","i","j","k","l","m",
           "n","o","p","q","r","s","t","u","v","w","x","y","z">>

Digits == <<"0","1","2","3","4","5","6","7","8","9">>

Punct == ("{" :> 123) @@ ("}" :> 125) @@ ("[" :> 91) @@ ("]" :> 93)
         @@ ("\"" :> 34) @@ (":" :> 58) @@ ("," :> 44) @@ ("\\" :> 92)
         @@ ("/" :> 47) @@ ("-" :> 45) @@ ("+" :> 43) @@ ("." :> 46)
         @@ (" " :> 32) @@ ("_" :> 95) @@ ("E" :> 69)
         @@ ("J" :> 74) @@ ("S" :> 83) @@ ("O" :> 79) @@ ("N" :> 78)
         @@ ("\n" :> 10) @@ ("\r" :> 13) @@ ("\t" :> 9) @@ ("xFF" :> 255)
         @@ ("xC3" :> 195) @@ ("xA9" :> 169)

\* The byte of a one-character string ("xFF", "xC3", "xA9" name bytes >= 128).
Byte(c) ==
    IF \E k \in DOMAIN Lower : Lower[k] = c
    THEN 96 + (CHOOSE k \in DOMAIN Lower : Lower[k] = c)
    ELSE IF \E k \in DOMAIN Digits : Digits[k] = c
    THEN 47 + (CHOOSE k \in DOMAIN Digits : Digits[k] = c)
    ELSE Punct[c]

\* The bytes of a text given as a tuple of one-character strings.
B(cs) == [k \in DOMAIN cs |-> Byte(cs[k])]

\* s[from..] in Rust's sense, with 1-based positions: the bytes from position
\* `from` on.
From(s, from) == SubSeq(s, from, Len(s))

(***************************************************************************)
(* std::str::from_utf8: the well-formed byte sequences of Unicode's        *)
(* table 3-7.                                                              *)
(***************************************************************************)
Cont(s, i) == i <= Len(s) /\ s[i] \in 128..191

RECURSIVE Utf8From(_, _)
Utf8From(s, i) ==
    IF i > Len(s) THEN TRUE
    ELSE LET b == s[i] IN
         IF b <= 127 THEN Utf8From(s, i + 1)
         ELSE IF b \in 194..223
              THEN Cont(s, i + 1) /\ Utf8From(s, i + 2)
         ELSE IF b \in 224..239
              THEN /\ Cont(s, i + 1) /\ Cont(s, i + 2)
                   /\ (b = 224 => s[i + 1] >= 160)
                   /\ (b = 237 => s[i + 1] <= 159)
                   /\ Utf8From(s, i + 3)
         ELSE IF b \in 240..244
              THEN /\ Cont(s, i + 1) /\ Cont(s, i + 2) /\ Cont(s, i + 3)
                   /\ (b = 240 => s[i + 1] >= 144)
                   /\ (b = 244 => s[i + 1] <= 143)
                   /\ Utf8From(s, i + 4)
         ELSE FALSE

from_utf8(s) == Utf8From(s, 1)

(***************************************************************************)
(* serde_json::from_slice, first half: the JSON text (RFC 8259 as          *)
(* serde_json reads it) parsed into a value.  A value is a record with a   *)
(* tag t: "str" (s: the decoded text, strict: whether parse_str accepts    *)
(* it, that is valid UTF-8 and no lone surrogate escape), "num" (neg,      *)
(* int, digits), "bool", "null", "arr" (items) and "obj" (members: the     *)
(* <<key, value>> pairs in document order).  A parse result is             *)
(* [ok, v, i]: i is the position after the value.                          *)
(***************************************************************************)
Fail == [ok |-> FALSE, v |-> [t |-> "none"], i |-> 0]

Done(val, next) == [ok |-> TRUE, v |-> val, i |-> next]

IsWs(b) == b \in {32, 9, 10, 13}

IsDigit(b) == b \in 48..57

IsHex(b) == b \in (48..57) \cup (65..70) \cup (97..102)

HexVal(b) == IF b <= 57 THEN b - 48 ELSE IF b <= 70 THEN b - 55 ELSE b - 87

RECURSIVE SkipWs(_, _)
SkipWs(s, i) == IF i <= Len(s) /\ IsWs(s[i]) THEN SkipWs(s, i + 1) ELSE i

RECURSIVE SkipDigits(_, _)
SkipDigits(s, i) == IF i <= Len(s) /\ IsDigit(s[i]) THEN SkipDigits(s, i + 1) ELSE i

\* The four hex digits at s[i..i+3] as a code unit, or -1.
Hex4(s, i) ==
    IF i + 3 <= Len(s) /\ \A k \in i..(i + 3) : IsHex(s[k])
    THEN 4096 * HexVal(s[i]) + 256 * HexVal(s[i + 1])
         + 16 * HexVal(s[i + 2]) + HexVal(s[i + 3])
    ELSE -1

\* The byte an escape letter stands for: \" \\ \/ \b \f \n \r \t.
Unescape(b) ==
    CASE b = 34 -> 34 [] b = 92 -> 92 [] b = 47 -> 47 [] b = 98 -> 8
      [] b = 102 -> 12 [] b = 110 -> 10 [] b = 114 -> 13 [] b = 116 -> 9

\* The string body from position j (after the opening quote): acc is the text
\* decoded so far (an escaped code unit n >= 128 is kept as 256 + n), raw the
\* bytes read as they are, strict whether no lone surrogate was met.  A string
\* that is skipped (a value of an unknown field) is only scanned; a string that
\* is read as a key or a String must also be strict.
RECURSIVE ScanString(_, _, _, _, _)
\* The escape \uXXXX at j, n its code unit and m the code unit of a \uXXXX
\* that follows it (-1: none).
ScanHexEscape(s, j, acc, raw, strict, n, m) ==
    IF n < 0 THEN Fail
    ELSE IF n \in 56320..57343
    THEN ScanString(s, j + 6, Append(acc, 256 + n), raw, FALSE)
    ELSE IF n \in 55296..56319
    THEN IF j + 7 <= Len(s) /\ s[j + 6] = 92 /\ s[j + 7] = 117 /\ m \in 56320..57343
         THEN ScanString(s, j + 12, acc \o <<256 + n, 256 + m>>, raw, strict)
         ELSE ScanString(s, j + 6, Append(acc, 256 + n), raw, FALSE)
    ELSE ScanString(s, j + 6, Append(acc, IF n < 128 THEN n ELSE 256 + n), raw, strict)

ScanString(s, j, acc, raw, strict) ==
    IF j > Len(s) THEN Fail
    ELSE IF s[j] = 34
    THEN Done([t |-> "str", s |-> acc, strict |-> strict /\ from_utf8(raw)], j + 1)
    ELSE IF s[j] < 32 THEN Fail
    ELSE IF s[j] # 92 THEN ScanString(s, j + 1, Append(acc, s[j]), Append(raw, s[j]), strict)
    ELSE IF j + 1 > Len(s) THEN Fail
    ELSE IF s[j + 1] \in {34, 92, 47, 98, 102, 110, 114, 116}
    THEN ScanString(s, j + 2, Append(acc, Unescape(s[j + 1])), raw, strict)
    ELSE IF s[j + 1] # 117 THEN Fail
    ELSE ScanHexEscape(s, j, acc, raw, strict, Hex4(s, j + 2), Hex4(s, j + 8))

\* A number whose integer part is s[d0..d1-1] and whose fraction, if any, ends
\* before f1: the exponent, whose digits start at e0 and end before e1.
NumberExponent(s, neg, d0, d1, f1, e0, e1) ==
    IF f1 <= Len(s) /\ s[f1] \in {69, 101}
    THEN IF e1 = e0 THEN Fail
         ELSE Done([t |-> "num", neg |-> neg, int |-> FALSE,
                    digits |-> SubSeq(s, d0, d1 - 1)], e1)
    ELSE Done([t |-> "num", neg |-> neg, int |-> f1 = d1,
               digits |-> SubSeq(s, d0, d1 - 1)], f1)

NumberExponentSign(s, neg, d0, d1, f1, e0) ==
    NumberExponent(s, neg, d0, d1, f1, e0, SkipDigits(s, e0))

NumberFraction(s, neg, d0, d1, f1) ==
    IF f1 = d1 + 1 THEN Fail
    ELSE NumberExponentSign(s, neg, d0, d1, f1,
            IF f1 + 1 <= Len(s) /\ s[f1 + 1] \in {43, 45} THEN f1 + 2 ELSE f1 + 1)

NumberInteger(s, neg, d0, d1) ==
    IF s[d0] = 48 /\ d1 <= Len(s) /\ IsDigit(s[d1]) THEN Fail
    ELSE IF d1 <= Len(s) /\ s[d1] = 46
    THEN NumberFraction(s, neg, d0, d1, SkipDigits(s, d1 + 1))
    ELSE NumberFraction(s, neg, d0, d1, d1)

NumberDigits(s, neg, d0) ==
    IF d0 > Len(s) \/ ~IsDigit(s[d0]) THEN Fail
    ELSE NumberInteger(s, neg, d0, IF s[d0] = 48 THEN d0 + 1 ELSE SkipDigits(s, d0))

\* A number at position i (s[i] is '-' or a digit).
ParseNumber(s, i) == NumberDigits(s, s[i] = 45, IF s[i] = 45 THEN i + 1 ELSE i)

\* The literal word w at position i.
ParseWord(s, i, w, val) ==
    IF i + Len(w) - 1 <= Len(s) /\ SubSeq(s, i, i + Len(w) - 1) = w
    THEN Done(val, i + Len(w)) ELSE Fail

RECURSIVE ParseValue(_, _), ParseElements(_, _, _), ParseMembers(_, _, _)
\* After '[' and whitespace.
ParseArrayAt(s, j) ==
    IF j <= Len(s) /\ s[j] = 93
    THEN Done([t |-> "arr", items |-> <<>>], j + 1)
    ELSE ParseElements(s, j, <<>>)

\* After '{' and whitespace.
ParseObjectAt(s, j) ==
    IF j <= Len(s) /\ s[j] = 125
    THEN Done([t |-> "obj", members |-> <<>>], j + 1)
    ELSE ParseMembers(s, j, <<>>)

\* A value that starts at position i, whitespace skipped.
ParseValueAt(s, i) ==
    IF i > Len(s) THEN Fail
    ELSE CASE s[i] = 34 -> ScanString(s, i + 1, <<>>, <<>>, TRUE)
           [] s[i] = 45 \/ IsDigit(s[i]) -> ParseNumber(s, i)
           [] s[i] = 116 -> ParseWord(s, i, B(<<"t","r","u","e">>), [t |-> "bool"])
           [] s[i] = 102 -> ParseWord(s, i, B(<<"f","a","l","s","e">>), [t |-> "bool"])
           [] s[i] = 110 -> ParseWord(s, i, B(<<"n","u","l","l">>), [t |-> "null"])
           [] s[i] = 91 -> ParseArrayAt(s, SkipWs(s, i + 1))
           [] s[i] = 123 -> ParseObjectAt(s, SkipWs(s, i + 1))
           [] OTHER -> Fail

ParseValue(s, i0) == ParseValueAt(s, SkipWs(s, i0))

\* After the elements acc and whitespace: ',' or ']'.
ElementsNext(s, j, acc) ==
    IF j > Len(s) THEN Fail
    ELSE IF s[j] = 93 THEN Done([t |-> "arr", items |-> acc], j + 1)
    ELSE IF s[j] = 44 THEN ParseElements(s, j + 1, acc)
    ELSE Fail

ElementsAfter(s, e, acc) ==
    IF ~e.ok THEN Fail ELSE ElementsNext(s, SkipWs(s, e.i), Append(acc, e.v))

ParseElements(s, i, acc) == ElementsAfter(s, ParseValue(s, i), acc)

\* After the members acc and whitespace: ',' or '}'.
MembersNext(s, j, acc) ==
    IF j > Len(s) THEN Fail
    ELSE IF s[j] = 125 THEN Done([t |-> "obj", members |-> acc], j + 1)
    ELSE IF s[j] = 44 THEN ParseMembers(s, j + 1, acc)
    ELSE Fail

\* After the key k, the colon and the value m.
MemberAfterValue(s, k, m, acc) ==
    IF ~m.ok THEN Fail ELSE MembersNext(s, SkipWs(s, m.i), Append(acc, <<k.v, m.v>>))

\* After the key k and whitespace: the colon at j.
MemberColon(s, k, j, acc) ==
    IF j > Len(s) \/ s[j] # 58 THEN Fail
    ELSE MemberAfterValue(s, k, ParseValue(s, j + 1), acc)

MemberAfterKey(s, k, acc) ==
    IF ~k.ok THEN Fail ELSE MemberColon(s, k, SkipWs(s, k.i), acc)

MemberKey(s, j, acc) ==
    IF j > Len(s) \/ s[j] # 34 THEN Fail
    ELSE MemberAfterKey(s, ScanString(s, j + 1, <<>>, <<>>, TRUE), acc)

ParseMembers(s, i, acc) == MemberKey(s, SkipWs(s, i), acc)

\* Deserializer::end: nothing but whitespace after the value r.
DocumentEnd(s, r) == IF r.ok /\ SkipWs(s, r.i) > Len(s) THEN r ELSE Fail

\* One JSON value with nothing but whitespace after it.
ParseDocument(s) == DocumentEnd(s, ParseValue(s, 1))

(***************************************************************************)
(* serde_json::from_slice, second half: the value read as the Rust type    *)
(* the caller names, as #[derive(Deserialize)] reads it.  A type is a      *)
(* record with a tag k: "String", "f64", "u64", "u32", "Option<bool>",     *)
(* "Value", "Vec" (of), "HashMap" (String to of) and "struct" (name).  A   *)
(* struct is read from an object (unknown fields skipped, a known field    *)
(* at most once, the required ones present) or from an array of exactly    *)
(* its fields in declaration order.                                        *)
(***************************************************************************)
String == [k |-> "String"]

F64 == [k |-> "f64"]

U64 == [k |-> "u64"]

U32 == [k |-> "u32"]

OptionBool == [k |-> "Option<bool>"]

Value == [k |-> "Value"]

Vec(ty) == [k |-> "Vec", of |-> ty]

HashMap(ty) == [k |-> "HashMap", of |-> ty]

Struct(name) == [k |-> "struct", name |-> name]

Field(name, ty) == [name |-> B(name), ty |-> ty]

Token ==
    << Field(<<"c","o","n","f","i","d","e","n","c","e">>, F64),
       Field(<<"s","t","a","r","t">>, U64),
       Field(<<"e","n","d">>, U64),
       Field(<<"t","o","k","e","n">>, String) >>

Speech ==
    << Field(<<"c","o","n","f","i","d","e","n","c","e">>, F64),
       Field(<<"t","o","k","e","n","s">>, Vec(Struct("Token"))) >>

DictationResponse ==
    << Field(<<"s","p","e","e","c","h">>, Struct("Speech")),
       Field(<<"t","e","x","t">>, String),
       Field(<<"i","s","_","f","i","n","a","l">>, OptionBool) >>

TranscriptionResponse == << Field(<<"t","e","x","t">>, String) >>

UnderstandingResponse ==
    << Field(<<"t","e","x","t">>, String),
       Field(<<"i","n","t","e","n","t","s">>, Vec(Struct("UnderstandingIntent"))),
       Field(<<"e","n","t","i","t","i","e","s">>,
             HashMap(Vec(Struct("UnderstandingEntity")))),
       Field(<<"t","r","a","i","t","s">>, HashMap(Vec(Struct("UnderstandingTrait")))) >>

UnderstandingIntent ==
    << Field(<<"i","d">>, String),
       Field(<<"n","a","m","e">>, String),
       Field(<<"c","o","n","f","i","d","e","n","c","e">>, F64) >>

UnderstandingEntity ==
    << Field(<<"i","d">>, String),
       Field(<<"n","a","m","e">>, String),
       Field(<<"r","o","l","e">>, String),
       Field(<<"s","t","a","r","t">>, U32),
       Field(<<"e","n","d">>, U32),
       Field(<<"b","o","d","y">>, String),
       Field(<<"c","o","n","f","i","d","e","n","c","e">>, F64),
       Field(<<"v","a","l","u","e">>, Value),
       Field(<<"e","n","t","i","t","i","e","s">>,
             HashMap(Vec(Struct("UnderstandingEntity")))) >>

UnderstandingTrait ==
    << Field(<<"i","d">>, String),
       Field(<<"v","a","l","u","e">>, Value),
       Field(<<"c","o","n","f","i","d","e","n","c","e">>, F64) >>

Locale ==
    << Field(<<"l","o","c","a","l","e">>, String),
       Field(<<"c","o","n","f","i","d","e","n","c","e">>, F64) >>

LanguageResponse ==
    << Field(<<"d","e","t","e","c","t","e","d","_","l","o","c","a","l","e","s">>,
             Vec(Struct("Locale"))) >>

ErrorResponse ==
    << Field(<<"e","r","r","o","r">>, String),
       Field(<<"c","o","d","e">>, String) >>

\* The fields of the struct called name, in declaration order.
Fields(name) ==
    CASE name = "Token" -> Token
      [] name = "Speech" -> Speech
      [] name = "DictationResponse" -> DictationResponse
      [] name = "TranscriptionResponse" -> TranscriptionResponse
      [] name = "UnderstandingResponse" -> UnderstandingResponse
      [] name = "UnderstandingIntent" -> UnderstandingIntent
      [] name = "UnderstandingEntity" -> UnderstandingEntity
      [] name = "UnderstandingTrait" -> UnderstandingTrait
      [] name = "Locale" -> Locale
      [] name = "LanguageResponse" -> LanguageResponse
      [] name = "ErrorResponse" -> ErrorResponse

LexLeq(a, b) ==
    \/ a = b
    \/ \E k \in DOMAIN a : a[k] < b[k] /\ \A j \in 1..(k - 1) : a[j] = b[j]

\* The decimal digits d denote a number <= the one max denotes.
DigitsLeq(d, max) == Len(d) < Len(max) \/ (Len(d) = Len(max) /\ LexLeq(d, max))

\* u64::MAX and u32::MAX in decimal
U64Max == B(<<"1","8","4","4","6","7","4","4","0","7",
              "3","7","0","9","5","5","1","6","1","5">>)

U32Max == B(<<"4","2","9","4","9","6","7","2","9","5">>)

\* v is a JSON integer that is not negative and at most max ("-0" is read as
\* a float).
IsUnsigned(v, max) == v.t = "num" /\ v.int /\ ~v.neg /\ DigitsLeq(v.digits, max)

\* The members of object v whose key is the field name.
Occurrences(v, name) == {m \in DOMAIN v.members : v.members[m][1].s = name}

\* v read as the type ty.
RECURSIVE Is(_, _)
\* v read as a struct with the fields fs; a field whose type is an Option may
\* be absent from an object.
IsStruct(fs, v) ==
    CASE v.t = "obj" ->
           /\ \A m \in DOMAIN v.members : v.members[m][1].strict
           /\ \A f \in DOMAIN fs :
                /\ Cardinality(Occurrences(v, fs[f].name)) <= 1
                /\ fs[f].ty # OptionBool => Occurrences(v, fs[f].name) # {}
                /\ \A m \in Occurrences(v, fs[f].name) : Is(fs[f].ty, v.members[m][2])
      [] v.t = "arr" ->
           /\ Len(v.items) = Len(fs)
           /\ \A f \in DOMAIN fs : Is(fs[f].ty, v.items[f])
      [] OTHER -> FALSE

Is(ty, v) ==
    CASE ty.k = "String" -> v.t = "str" /\ v.strict
      [] ty.k = "f64" -> v.t = "num"
      [] ty.k = "u64" -> IsUnsigned(v, U64Max)
      [] ty.k = "u32" -> IsUnsigned(v, U32Max)
      [] ty.k = "Option<bool>" -> v.t \in {"null", "bool"}
      [] ty.k = "Value" ->
           CASE v.t = "str" -> v.strict
             [] v.t = "arr" -> \A e \in DOMAIN v.items : Is(Value, v.items[e])
             [] v.t = "obj" -> \A m \in DOMAIN v.members :
                                   v.members[m][1].strict /\ Is(Value, v.members[m][2])
             [] OTHER -> TRUE
      [] ty.k = "Vec" -> v.t = "arr" /\ \A e \in DOMAIN v.items : Is(ty.of, v.items[e])
      [] ty.k = "HashMap" ->
           /\ v.t = "obj"
           /\ \A m \in DOMAIN v.members :
                 v.members[m][1].strict /\ Is(ty.of, v.members[m][2])
      [] ty.k = "struct" -> IsStruct(Fields(ty.name), v)

\* Field f of a value that IsStruct accepted (an absent Option is "null").
GetField(v, fs, f) ==
    IF v.t = "arr" THEN v.items[f]
    ELSE IF Occurrences(v, fs[f].name) = {} THEN [t |-> "null"]
    ELSE v.members[CHOOSE m \in Occurrences(v, fs[f].name) : TRUE][2]

\* The parsed document r read as the struct called name, whose text is its
\* field f.
Typed(r, name, f) ==
    IF r.ok /\ Is(Struct(name), r.v)
    THEN [ok |-> TRUE, text |-> GetField(r.v, Fields(name), f).s]
    ELSE [ok |-> FALSE, text |-> <<>>]

\* serde_json::from_slice::<T>(chunk): [ok, text], text the value's text field.
from_slice_DictationResponse(chunk) == Typed(ParseDocument(chunk), "DictationResponse", 2)

from_slice_UnderstandingResponse(chunk) ==
    Typed(ParseDocument(chunk), "UnderstandingResponse", 1)

from_slice_TranscriptionResponse(chunk) ==
    Typed(ParseDocument(chunk), "TranscriptionResponse", 1)

(***************************************************************************)
(* Output items.  res is what the caller sees; lo, hi and via record where *)
(* the item came from: the bytes lo+1..hi of the good bytes received, cut  *)
(* at a delimiter ("delimiter") or tried as the last document             *)
(* ("terminal"), or a failed chunk ("transport").                          *)
(***************************************************************************)
OkDictation(text) == [kind |-> "Ok", shape |-> "DictationResponse", text |-> text]

OkUnderstanding(text) == [kind |-> "Ok", shape |-> "Understanding", text |-> text]

OkTranscription(text) == [kind |-> "Ok", shape |-> "Transcription", text |-> text]

\* Error::JSONParseError(message)
JSONParseError(message) == [kind |-> "Err", shape |-> "JSONParseError", text |-> message]

\* Error::ResponseParseError(err)
ResponseParseError == [kind |-> "Err", shape |-> "ResponseParseError", text |-> <<>>]

CouldNotBeParsedIntoJSON ==
    B(<<" ","c","o","u","l","d"," ","n","o","t"," ","b","e"," ","p","a","r","s","e","d",
        " ","i","n","t","o"," ","J","S","O","N">>)

CouldNotBeParsedIntoUtf8 ==
    B(<<"r","e","s","p","o","n","s","e"," ","c","o","u","l","d"," ","n","o","t"," ",
        "b","e"," ","p","a","r","s","e","d"," ","i","n","t","o"," ","u","t","f","8">>)

json_obj_separator == <<13, 10>>

separator_length == Len(json_obj_separator)

terminal_suffix == <<10, 125>>

\* slice.windows(separator_length).position(|w| w == json_obj_separator):
\* the 0-based index of the first window equal to the separator, -1 for None.
FirstOf(hits) == IF hits = {} THEN -1 ELSE CHOOSE e \in hits : \A f \in hits : e <= f

position(slice) ==
    FirstOf({e \in 0..(Len(slice) - separator_length) :
                SubSeq(slice, e + 1, e + separator_length) = json_obj_separator})

ends_with(slice, suffix) ==
    /\ Len(slice) >= Len(suffix)
    /\ SubSeq(slice, Len(slice) - Len(suffix) + 1, Len(slice)) = suffix

\* A dictation closure that surfaces a parse failure as an item, the way the
\* speech closure does.
dictation_push_result_surfaced(r) ==
    IF r.ok THEN <<OkDictation(r.text)>> ELSE <<JSONParseError(CouldNotBeParsedIntoUtf8)>>

\* dictation: what one document pushes onto `dictations`, r its parse.
dictation_push_result(r) == IF r.ok THEN <<OkDictation(r.text)>> ELSE <<>>

dictation_push(json_chunk) ==
    dictation_push_result(from_slice_DictationResponse(json_chunk))

\* A parse_chunk that tries TranscriptionResponse first.
parse_chunk_result_transcription_first(chunk, u, t) ==
    IF t.ok THEN <<OkTranscription(t.text)>>
    ELSE IF u.ok THEN <<OkUnderstanding(u.text)>>
    ELSE IF from_utf8(chunk)
    THEN <<JSONParseError(chunk \o CouldNotBeParsedIntoJSON)>>
    ELSE <<JSONParseError(CouldNotBeParsedIntoUtf8)>>

\* A parse_chunk whose failure never carries the text of the document.
parse_chunk_result_textless(chunk, u, t) ==
    IF u.ok THEN <<OkUnderstanding(u.text)>>
    ELSE IF t.ok THEN <<OkTranscription(t.text)>>
    ELSE <<JSONParseError(CouldNotBeParsedIntoUtf8)>>

\* A parse_chunk whose failures are dropped, the way the dictation closure
\* drops them.
parse_chunk_result_discarding(chunk, u, t) ==
    IF u.ok THEN <<OkUnderstanding(u.text)>>
    ELSE IF t.ok THEN <<OkTranscription(t.text)>>
    ELSE <<>>

\* speech: what parse_chunk pushes onto `speech_objs`; u and t are the parses
\* as UnderstandingResponse and as TranscriptionResponse.
parse_chunk_result(chunk, u, t) ==
    IF u.ok THEN <<OkUnderstanding(u.text)>>
    ELSE IF t.ok THEN <<OkTranscription(t.text)>>
    ELSE IF from_utf8(chunk)
    THEN <<JSONParseError(chunk \o CouldNotBeParsedIntoJSON)>>
    ELSE <<JSONParseError(CouldNotBeParsedIntoUtf8)>>

parse_chunk(chunk) ==
    parse_chunk_result(chunk, from_slice_UnderstandingResponse(chunk),
                       from_slice_TranscriptionResponse(chunk))

\* The resolver of the endpoint.
Resolve(ep, chunk) ==
    IF ep = "dictation" THEN dictation_push(chunk) ELSE parse_chunk(chunk)

\* The results `rs` of one document as items from the bytes lo+1..hi.
Tagged(rs, lo, hi, via) ==
    [k \in DOMAIN rs |-> [res |-> rs[k], lo |-> lo, hi |-> hi, via |-> via]]

\* The while loop over the delimiters of buf from the 0-based offset `start`;
\* base is the number of bytes drained from the buffer before this chunk.
RECURSIVE ScanLoop(_, _, _, _, _, _)
\* A turn that cuts the document without its delimiter.
ScanTurn_without_delimiter(ep, buf, base, start, items, tried, end, next) ==
    IF end < 0
    THEN [start |-> start, items |-> items, tried |-> tried, panicked |-> FALSE]
    ELSE IF next > Len(buf)
    THEN [start |-> start, items |-> items, tried |-> tried, panicked |-> TRUE]
    ELSE ScanLoop(ep, buf, base, next,
                  items \o Tagged(Resolve(ep, SubSeq(buf, start + 1, start + end)),
                                  base + start, base + start + end, "delimiter"),
                  Append(tried, [lo |-> base + start, hi |-> base + start + end,
                                 via |-> "delimiter"]))

\* One turn of the loop: `end` is what position returned, next the new start.
ScanTurn(ep, buf, base, start, items, tried, end, next) ==
    IF end < 0
    THEN [start |-> start, items |-> items, tried |-> tried, panicked |-> FALSE]
    ELSE IF next > Len(buf)   \* &buffer[start..next] panics beyond the end
    THEN [start |-> start, items |-> items, tried |-> tried, panicked |-> TRUE]
    ELSE ScanLoop(ep, buf, base, next,
                  items \o Tagged(Resolve(ep, SubSeq(buf, start + 1, next)),
                                  base + start, base + next, "delimiter"),
                  Append(tried, [lo |-> base + start, hi |-> base + next,
                                 via |-> "delimiter"]))

\* A loop that steps one byte past the delimiter it found.
ScanFound_overshoot(ep, buf, base, start, items, tried, end) ==
    ScanTurn(ep, buf, base, start, items, tried, end, start + end + separator_length + 1)

\* A loop that ends at a delimiter with nothing before it.
ScanFound_stops_at_empty(ep, buf, base, start, items, tried, end) ==
    ScanTurn(ep, buf, base, start, items, tried, IF end = 0 THEN -1 ELSE end,
             start + end + separator_length)

ScanFound(ep, buf, base, start, items, tried, end) ==
    ScanTurn(ep, buf, base, start, items, tried, end, start + end + separator_length)

\* buffer[start..] panics when start is beyond the end of the buffer.
ScanLoop(ep, buf, base, start, items, tried) ==
    IF start > Len(buf)
    THEN [start |-> start, items |-> items, tried |-> tried, panicked |-> TRUE]
    ELSE ScanFound(ep, buf, base, start, items, tried, position(From(buf, start + 1)))

\* A closure that pushes the last document before the delimited ones.
TerminalAttempt_first(ep, buf2, base2, items, tried) ==
    IF ends_with(buf2, terminal_suffix)
    THEN [buffer |-> buf2, drained |-> base2, panicked |-> FALSE,
          items |-> Tagged(Resolve(ep, buf2), base2, base2 + Len(buf2), "terminal")
                    \o items,
          tried |-> Append(tried, [lo |-> base2, hi |-> base2 + Len(buf2),
                                   via |-> "terminal"])]
    ELSE [buffer |-> buf2, drained |-> base2, panicked |-> FALSE, items |-> items, tried |-> tried]

\* A closure without the attempt at the last document.
TerminalAttempt_skipped(ep, buf2, base2, items, tried) ==
    [buffer |-> buf2, drained |-> base2, panicked |-> FALSE, items |-> items, tried |-> tried]

\* A closure that takes the last document out of the buffer once tried.
TerminalAttempt_consuming(ep, buf2, base2, items, tried) ==
    IF ends_with(buf2, terminal_suffix)
    THEN [buffer |-> <<>>, drained |-> base2 + Len(buf2), panicked |-> FALSE,
          items |-> items \o Tagged(Resolve(ep, buf2), base2, base2 + Len(buf2),
                                    "terminal"),
          tried |-> Append(tried, [lo |-> base2, hi |-> base2 + Len(buf2),
                                   via |-> "terminal"])]
    ELSE [buffer |-> buf2, drained |-> base2, panicked |-> FALSE, items |-> items, tried |-> tried]

\* A closure that tries what is left as the last document whatever its end.
TerminalAttempt_unconditional(ep, buf2, base2, items, tried) ==
    [buffer |-> buf2, drained |-> base2, panicked |-> FALSE,
     items |-> items \o Tagged(Resolve(ep, buf2), base2, base2 + Len(buf2), "terminal"),
     tried |-> Append(tried, [lo |-> base2, hi |-> base2 + Len(buf2), via |-> "terminal"])]

\* After buffer.drain(..start): buf2 is the buffer, base2 the bytes drained in
\* all; the last document is tried when the buffer ends in LF '}'.
TerminalAttempt(ep, buf2, base2, items, tried) ==
    IF ends_with(buf2, terminal_suffix)
    THEN [buffer |-> buf2, drained |-> base2, panicked |-> FALSE,
          items |-> items \o Tagged(Resolve(ep, buf2), base2, base2 + Len(buf2),
                                    "terminal"),
          tried |-> Append(tried, [lo |-> base2, hi |-> base2 + Len(buf2),
                                   via |-> "terminal"])]
    ELSE [buffer |-> buf2, drained |-> base2, panicked |-> FALSE, items |-> items, tried |-> tried]

\* A closure that leaves the scanned documents in the buffer.
Drain_nothing(ep, buf1, base, loop) ==
    IF loop.panicked
    THEN [buffer |-> buf1, drained |-> base, panicked |-> TRUE,
          items |-> <<>>, tried |-> loop.tried]
    ELSE TerminalAttempt(ep, buf1, base, loop.items, loop.tried)

\* buffer.drain(..start); a panic of the loop unwinds the closure.
Drain(ep, buf1, base, loop) ==
    IF loop.panicked
    THEN [buffer |-> buf1, drained |-> base, panicked |-> TRUE,
          items |-> <<>>, tried |-> loop.tried]
    ELSE TerminalAttempt(ep, From(buf1, loop.start + 1), base + loop.start,
                         loop.items, loop.tried)

\* The closure given to stream.map, on a good chunk: the new buffer, the
\* bytes drained in all, the items of the stream it returns, and the documents
\* it handed to the resolver.
MapChunk(ep, buf0, base, chunk_data) ==
    Drain(ep, buf0 \o chunk_data, base,
          ScanLoop(ep, buf0 \o chunk_data, base, 0, <<>>, <<>>))

(***************************************************************************)
(* The response bodies the transport may deliver.                          *)
(***************************************************************************)
CRLF == B(<<"\r","\n">>)

\* {"text":"a"<LF>}  and  {"text":"b"<LF>}
TextA == B(<<"{","\"","t","e","x","t","\"",":","\"","a","\"","\n","}">>)

TextB == B(<<"{","\"","t","e","x","t","\"",":","\"","b","\"","\n","}">>)

\* {"text":"a"}
TextAMin == B(<<"{","\"","t","e","x","t","\"",":","\"","a","\"","}">>)

\* {"text":"u","intents":[],"entities":{},"traits":{}<LF>}
UnderstandingU ==
    B(<<"{","\"","t","e","x","t","\"",":","\"","u","\"",",",
        "\"","i","n","t","e","n","t","s","\"",":","[","]",",",
        "\"","e","n","t","i","t","i","e","s","\"",":","{","}",",",
        "\"","t","r","a","i","t","s","\"",":","{","}","\n","}">>)

\* {"speech":{"confidence":1,"tokens":[]},"text":"d"<LF>}
DictationD ==
    B(<<"{","\"","s","p","e","e","c","h","\"",":","{",
        "\"","c","o","n","f","i","d","e","n","c","e","\"",":","1",",",
        "\"","t","o","k","e","n","s","\"",":","[","]","}",",",
        "\"","t","e","x","t","\"",":","\"","d","\"","\n","}">>)

\* {"error":"e","code":"c"<LF>} : what the service answers to a request it
\* refuses
ErrorEnvelope ==
    B(<<"{","\"","e","r","r","o","r","\"",":","\"","e","\"",",",
        "\"","c","o","d","e","\"",":","\"","c","\"","\n","}">>)

\* {"spe : a document cut short
Truncated == B(<<"{","\"","s","p","e">>)

\* {"text":"b"}<LF>}
TextBBrace == B(<<"{","\"","t","e","x","t","\"",":","\"","b","\"","}","\n","}">>)

\* {"speech":{"confidence":1,"tokens":[]},"text":"a"}
DictationA ==
    B(<<"{","\"","s","p","e","e","c","h","\"",":","{",
        "\"","c","o","n","f","i","d","e","n","c","e","\"",":","1",",",
        "\"","t","o","k","e","n","s","\"",":","[","]","}",",",
        "\"","t","e","x","t","\"",":","\"","a","\"","}">>)

\* {"speech":{"confidence":1,"tokens":[]},"text":"b"<LF>}
DictationB ==
    B(<<"{","\"","s","p","e","e","c","h","\"",":","{",
        "\"","c","o","n","f","i","d","e","n","c","e","\"",":","1",",",
        "\"","t","o","k","e","n","s","\"",":","[","]","}",",",
        "\"","t","e","x","t","\"",":","\"","b","\"","\n","}">>)

Bodies ==
    { TextA \o CRLF \o TextB,
      TextAMin \o CRLF \o TextB,
      UnderstandingU \o CRLF \o TextB,
      DictationD \o CRLF \o Truncated,
      B(<<"x","\r","\n">>) \o DictationD \o CRLF,
      B(<<"x","\r","\n","xFF","\r","\n","\r","\n","\n","}">>),
      TextAMin \o CRLF \o TextBBrace,
      DictationA \o CRLF \o DictationB }

\* How many empty chunks and failed chunks the transport delivers at most.
MaxEmptyChunks == 1

MaxTransportErrors == 1

(***************************************************************************)
(* The stream returned by dictation() / speech(): state                    *)
(***************************************************************************)
VARIABLES
    endpoint,     \* "dictation" or "speech"
    body,         \* the bytes of the response body
    pos,          \* how many of them the transport has delivered
    buffer,       \* the closure's `buffer`
    drained,      \* how many bytes buffer.drain has removed so far
    inner,        \* the items of the stream the closure returned last, not yet yielded
    out,          \* the items the caller has received
    consumer,     \* "pulling", "finished" (the stream ended), "dropped", or
                  \* "panicked" (the closure panicked under the caller's poll)
    tried,        \* the documents handed to the resolver so far
    emptyChunks,  \* empty chunks delivered
    failedChunks, \* chunks for which the transport reported a failure
    status,       \* the status of the response
    args,         \* the arguments of the call
    requests,     \* the requests sent through make_request
    result,       \* what the call returned, Pending before it returns
    builder       \* the request builder in the caller's hands

vars == <<endpoint, body, pos, buffer, drained, inner, out, consumer, tried,
          emptyChunks, failedChunks, status, args, requests, result, builder>>

\* What the steps of a stream leave alone: the call that made it.
call == <<status, args, requests, result, builder>>

\* No builder has been made.
NoBuilder == [type |-> "none"]

Pending == [kind |-> "Pending", shape |-> "Pending"]

\* Ok(dictations) / Ok(speech): the call returned the stream.
OkStream == [kind |-> "Ok", shape |-> "Stream"]

\* The responses to a streaming call: a body of documents, or the error
\* envelope of a request the service refused.
Responses ==
    {[status |-> 200, body |-> b] : b \in Bodies}
        \cup {[status |-> 401, body |-> ErrorEnvelope]}

\* The good bytes received so far.
received == SubSeq(body, 1, pos)

\* Every item produced so far that the caller has or will get next, in order.
Emitted == out \o inner

Init ==
    /\ endpoint \in {"dictation", "speech"}
    /\ \E r \in Responses : status = r.status /\ body = r.body
    /\ args = [audio_type |-> "audio/wav"]
    /\ requests = <<>>
    /\ result = OkStream
    /\ builder = NoBuilder
    /\ pos = 0
    /\ buffer = <<>>
    /\ drained = 0
    /\ inner = <<>>
    /\ out = <<>>
    /\ consumer = "pulling"
    /\ tried = <<>>
    /\ emptyChunks = 0
    /\ failedChunks = 0

\* A decoder that reads on in the background, whether or not the caller
\* still holds the stream.
PollsSource_detached == consumer # "finished" /\ consumer # "panicked" /\ inner = <<>>

\* flatten polls the mapped stream only when the last inner stream is used up.
PollsSource == consumer = "pulling" /\ inner = <<>>

\* What the closure leaves behind and returns, m being MapChunk's result.
Mapped(m) ==
    /\ buffer' = m.buffer
    /\ drained' = m.drained
    /\ inner' = m.items
    /\ tried' = tried \o m.tried
    /\ consumer' = IF m.panicked THEN "panicked" ELSE consumer

\* The transport delivers the next n bytes of the body and the closure runs.
GoodChunk(n) ==
    /\ PollsSource
    /\ n = 0 => emptyChunks < MaxEmptyChunks
    /\ Mapped(MapChunk(endpoint, buffer, drained, SubSeq(body, pos + 1, pos + n)))
    /\ pos' = pos + n
    /\ emptyChunks' = IF n = 0 THEN emptyChunks + 1 ELSE emptyChunks
    /\ UNCHANGED <<call, endpoint, body, out, failedChunks>>

\* A stream that hands the transport error to the caller ahead of the items
\* it was given before.
FailedChunk_ahead ==
    /\ PollsSource
    /\ failedChunks < MaxTransportErrors
    /\ out' = <<[res |-> ResponseParseError, lo |-> 0, hi |-> 0, via |-> "transport"]>> \o out
    /\ failedChunks' = failedChunks + 1
    /\ UNCHANGED <<call, endpoint, body, pos, buffer, drained, inner, consumer, tried, emptyChunks>>

\* A stream that ends at the first failure the transport reports.
FailedChunk_terminating ==
    /\ PollsSource
    /\ failedChunks < MaxTransportErrors
    /\ inner' = <<[res |-> ResponseParseError, lo |-> 0, hi |-> 0, via |-> "transport"]>>
    /\ failedChunks' = failedChunks + 1
    /\ consumer' = "finished"
    /\ UNCHANGED <<call, endpoint, body, pos, buffer, drained, out, tried, emptyChunks>>

\* A closure that swallows the failure of a chunk.
FailedChunk_silent ==
    /\ PollsSource
    /\ failedChunks < MaxTransportErrors
    /\ inner' = <<>>
    /\ failedChunks' = failedChunks + 1
    /\ UNCHANGED <<call, endpoint, body, pos, buffer, drained, out, consumer, tried, emptyChunks>>

\* A closure that starts over with an empty buffer after a failure.
FailedChunk_clearing ==
    /\ PollsSource
    /\ failedChunks < MaxTransportErrors
    /\ inner' = <<[res |-> ResponseParseError, lo |-> 0, hi |-> 0, via |-> "transport"]>>
    /\ failedChunks' = failedChunks + 1
    /\ buffer' = <<>>
    /\ drained' = pos
    /\ UNCHANGED <<call, endpoint, body, pos, out, consumer, tried, emptyChunks>>

\* The transport reports a failure for a chunk: the closure returns early.
FailedChunk ==
    /\ PollsSource
    /\ failedChunks < MaxTransportErrors
    /\ inner' = <<[res |-> ResponseParseError, lo |-> 0, hi |-> 0, via |-> "transport"]>>
    /\ failedChunks' = failedChunks + 1
    /\ UNCHANGED <<call, endpoint, body, pos, buffer, drained, out, consumer, tried, emptyChunks>>

\* flatten yields the next item of the current inner stream.
Yield ==
    /\ consumer = "pulling"
    /\ inner # <<>>
    /\ out' = Append(out, Head(inner))
    /\ inner' = Tail(inner)
    /\ UNCHANGED <<call, endpoint, body, pos, buffer, drained, consumer, tried,
                   emptyChunks, failedChunks>>

\* A stream that closes with an item of its own when the body ends.
SourceEnd_marker ==
    /\ PollsSource
    /\ pos = Len(body)
    /\ consumer' = "finished"
    /\ out' = Append(out, [res |-> ResponseParseError, lo |-> pos, hi |-> pos,
                           via |-> "transport"])
    /\ UNCHANGED <<call, endpoint, body, pos, buffer, drained, inner, tried,
                   emptyChunks, failedChunks>>

\* A stream that tries what is left in the buffer when the body ends.
SourceEnd_flushing ==
    /\ PollsSource
    /\ pos = Len(body)
    /\ consumer' = "finished"
    /\ out' = out \o Tagged(Resolve(endpoint, buffer), drained, pos, "terminal")
    /\ tried' = Append(tried, [lo |-> drained, hi |-> pos, via |-> "terminal"])
    /\ UNCHANGED <<call, endpoint, body, pos, buffer, drained, inner,
                   emptyChunks, failedChunks>>

\* The response body ends: the mapped stream and so the flattened one end.
SourceEnd ==
    /\ PollsSource
    /\ pos = Len(body)
    /\ consumer' = "finished"
    /\ UNCHANGED <<call, endpoint, body, pos, buffer, drained, inner, out, tried,
                   emptyChunks, failedChunks>>

\* The caller drops the stream: the response, the closure and its buffer go.
Drop ==
    /\ consumer = "pulling"
    /\ consumer' = "dropped"
    /\ inner' = <<>>
    /\ buffer' = <<>>
    /\ UNCHANGED <<call, endpoint, body, pos, drained, out, tried, emptyChunks, failedChunks>>

Next ==
    \/ \E n \in 0..(Len(body) - pos) : GoodChunk(n)
    \/ FailedChunk
    \/ Yield
    \/ SourceEnd
    \/ Drop

Spec == Init /\ [][Next]_vars

(***************************************************************************)
(* The calls that return one JSON body: make_request and language          *)
(***************************************************************************)
\* What the steps of such a call leave alone: the state of a stream.
stream == <<pos, buffer, drained, inner, out, consumer, tried, emptyChunks, failedChunks>>

\* Error::InvalidArgument(details)
InvalidArgument(details) == [kind |-> "Err", shape |-> "InvalidArgument", text |-> details]

\* Error::RequestError(err)
RequestError == [kind |-> "Err", shape |-> "RequestError", text |-> <<>>]

\* Error::WitError(ErrorResponse {error, code})
WitError(error, code) == [kind |-> "Err", shape |-> "WitError", error |-> error, code |-> code]

\* Ok(data), data the body read as the struct called name
OkResponse(name, v) == [kind |-> "Ok", shape |-> name, value |-> v]

\* response.json::<T>(): the body r parsed, read as the struct called name.
json_result(name, r) ==
    IF r.ok /\ Is(Struct(name), r.v) THEN [ok |-> TRUE, v |-> r.v]
    ELSE [ok |-> FALSE, v |-> [t |-> "null"]]

json(name, bytes) == json_result(name, ParseDocument(bytes))

\* impl From<ErrorResponse> for Error
FromErrorResponse(v) ==
    WitError(GetField(v, ErrorResponse, 1).s, GetField(v, ErrorResponse, 2).s)

\* A make_request that takes every 2xx status for a success.
make_request_data_any_success(name, st, t, e) ==
    IF st >= 200 /\ st < 300
    THEN IF t.ok THEN OkResponse(name, t.v) ELSE ResponseParseError
    ELSE IF e.ok THEN FromErrorResponse(e.v) ELSE ResponseParseError

\* match response.status(): t and e are the body read as T and as
\* ErrorResponse; a body that cannot be read is a decode error, which
\* From<reqwest::Error> turns into ResponseParseError.
make_request_data(name, st, t, e) ==
    IF st = 200
    THEN IF t.ok THEN OkResponse(name, t.v) ELSE ResponseParseError
    ELSE IF e.ok THEN FromErrorResponse(e.v) ELSE ResponseParseError

\* What make_request returns for the response (st, bytes).
make_request(name, st, bytes) ==
    make_request_data(name, st, json(name, bytes), json("ErrorResponse", bytes))

\* request.query(&url_params) on the method and endpoint given
Request(method, ep, url_params) ==
    [method |-> method, endpoint |-> ep, url_params |-> url_params]

\* u16::to_string
RECURSIVE to_string(_)
to_string(n) ==
    IF n < 10 THEN <<48 + n>> ELSE to_string(n \div 10) \o <<48 + (n % 10)>>

\* format!("limit must be between 1 and 8 inclusive, got {limit}")
LimitMessage(limit) ==
    B(<<"l","i","m","i","t"," ","m","u","s","t"," ","b","e"," ",
        "b","e","t","w","e","e","n"," ","1"," ","a","n","d"," ","8"," ",
        "i","n","c","l","u","s","i","v","e",","," ","g","o","t"," ">>) \o to_string(limit)

\* The url_params language builds.
LanguageParams(query, limit) ==
    << <<B(<<"q">>), query>>, <<B(<<"n">>), to_string(limit)>> >>

\* {"detected_locales":[{"locale":"en","confidence":1}]}
LanguageBody ==
    B(<<"{","\"","d","e","t","e","c","t","e","d","_","l","o","c","a","l","e","s","\"",":",
        "[","{","\"","l","o","c","a","l","e","\"",":","\"","e","n","\"",",",
        "\"","c","o","n","f","i","d","e","n","c","e","\"",":","1","}","]","}">>)

\* {"detected_locales":[],"error":"e","code":"c"} : reads as both
LanguageOrErrorBody ==
    B(<<"{","\"","d","e","t","e","c","t","e","d","_","l","o","c","a","l","e","s","\"",":",
        "[","]",",","\"","e","r","r","o","r","\"",":","\"","e","\"",",",
        "\"","c","o","d","e","\"",":","\"","c","\"","}">>)

UnaryBodies == {LanguageBody, LanguageOrErrorBody, ErrorEnvelope, TextAMin, B(<<"x">>)}

Statuses == {200, 201, 401}

Queries == {B(<<"a">>), B(<<"a"," ","b">>)}

\* limit: u16
Limits == {0, 1, 5, 8, 9, 65535}

UnaryInit ==
    /\ endpoint = "language"
    /\ args \in {[query |-> q, limit |-> l] : q \in Queries, l \in Limits}
    /\ status \in Statuses
    /\ body \in UnaryBodies
    /\ requests = <<>>
    /\ result = Pending
    /\ builder = NoBuilder
    /\ pos = 0
    /\ buffer = <<>>
    /\ drained = 0
    /\ inner = <<>>
    /\ out = <<>>
    /\ consumer = "none"
    /\ tried = <<>>
    /\ emptyChunks = 0
    /\ failedChunks = 0

\* A language that takes 1..8 for a range without its upper end.
language_exclusive ==
    /\ endpoint = "language" /\ result = Pending /\ requests = <<>>
    /\ IF ~(args.limit \in 1..7)
       THEN result' = InvalidArgument(LimitMessage(args.limit)) /\ UNCHANGED requests
       ELSE /\ requests' = <<Request("GET", "/language",
                                     LanguageParams(args.query, args.limit))>>
            /\ UNCHANGED result
    /\ UNCHANGED <<stream, builder, endpoint, body, status, args>>

\* language(query, limit), up to the request it hands to make_request.
language ==
    /\ endpoint = "language" /\ result = Pending /\ requests = <<>>
    /\ IF ~(args.limit \in 1..8)
       THEN result' = InvalidArgument(LimitMessage(args.limit)) /\ UNCHANGED requests
       ELSE /\ requests' = <<Request("GET", "/language",
                                     LanguageParams(args.query, args.limit))>>
            /\ UNCHANGED result
    /\ UNCHANGED <<stream, builder, endpoint, body, status, args>>

\* make_request: .send().await? fails.
SendFails ==
    /\ result = Pending /\ requests # <<>>
    /\ result' = RequestError
    /\ UNCHANGED <<stream, builder, endpoint, body, status, args, requests>>

\* make_request: the response arrives and is classified by its status.
Responds ==
    /\ result = Pending /\ requests # <<>>
    /\ result' = make_request("LanguageResponse", status, body)
    /\ UNCHANGED <<stream, builder, endpoint, body, status, args, requests>>

UnaryNext ==
    \/ language
    \/ SendFails
    \/ Responds

UnarySpec == UnaryInit /\ [][UnaryNext]_vars

(***************************************************************************)
(* The request builders: MessageOptionsBuilder, GetUtterancesRequestBuilder *)
(***************************************************************************)
\* Option<T>
None == [some |-> FALSE]

Some(x) == [some |-> TRUE, v |-> x]

\* The builder went into the call (self by value) and did not come back.
Moved == [type |-> "moved"]

\* A method that returns Self, a Result that is Ok(Self), a built value.
ReturnedSelf == [kind |-> "Self", shape |-> "Builder"]

OkSelf == [kind |-> "Ok", shape |-> "Builder"]

\* What the steps of a builder leave alone.
untouched == <<stream, endpoint, body, status, requests>>

\* format!("limit should be between 1 and 8 inclusive, got {limit}")
MessageLimitMessage(limit) ==
    B(<<"l","i","m","i","t"," ","s","h","o","u","l","d"," ","b","e"," ",
        "b","e","t","w","e","e","n"," ","1"," ","a","n","d"," ","8"," ",
        "i","n","c","l","u","s","i","v","e",","," ","g","o","t"," ">>) \o to_string(limit)

\* The arguments the builders are called with.
Tags == {B(<<"t">>)}

\* limit: u16
MessageLimits == {0, 1, 5, 8, 9, 65535}

Contexts == {"context"}

DynamicEntitiesValues == {"dynamic_entities"}

BuilderInit ==
    /\ endpoint = "none"
    /\ body = <<>>
    /\ status = 0
    /\ args = [method |-> "none"]
    /\ requests = <<>>
    /\ result = Pending
    /\ builder = NoBuilder
    /\ pos = 0
    /\ buffer = <<>>
    /\ drained = 0
    /\ inner = <<>>
    /\ out = <<>>
    /\ consumer = "none"
    /\ tried = <<>>
    /\ emptyChunks = 0
    /\ failedChunks = 0

IsMessageOptionsBuilder == builder.type = "MessageOptionsBuilder"

\* MessageOptionsBuilder::new()
MessageOptionsBuilder_new ==
    /\ builder.type = "none"
    /\ builder' = [type |-> "MessageOptionsBuilder", tag |-> None, n |-> None,
                   context |-> None, dynamic_entities |-> None]
    /\ args' = [method |-> "MessageOptionsBuilder::new"]
    /\ result' = ReturnedSelf
    /\ UNCHANGED untouched

\* MessageOptionsBuilder::tag(tag)
tag(t) ==
    /\ IsMessageOptionsBuilder
    /\ builder' = [builder EXCEPT !.tag = Some(t)]
    /\ args' = [method |-> "tag", value |-> t]
    /\ result' = ReturnedSelf
    /\ UNCHANGED untouched

\* A limit that stores whatever it is given.
limit_unchecked(l) ==
    /\ IsMessageOptionsBuilder
    /\ args' = [method |-> "limit", value |-> l]
    /\ builder' = [builder EXCEPT !.n = Some(l)]
    /\ result' = OkSelf
    /\ UNCHANGED untouched

\* MessageOptionsBuilder::limit(limit)
limit(l) ==
    /\ IsMessageOptionsBuilder
    /\ args' = [method |-> "limit", value |-> l]
    /\ IF ~(l \in 1..8)
       THEN result' = InvalidArgument(MessageLimitMessage(l)) /\ builder' = Moved
       ELSE builder' = [builder EXCEPT !.n = Some(l)] /\ result' = OkSelf
    /\ UNCHANGED untouched

\* MessageOptionsBuilder::context(context)
context(c) ==
    /\ IsMessageOptionsBuilder
    /\ builder' = [builder EXCEPT !.context = Some(c)]
    /\ args' = [method |-> "context", value |-> c]
    /\ result' = ReturnedSelf
    /\ UNCHANGED untouched

\* MessageOptionsBuilder::dynamic_entities(entities)
dynamic_entities(e) ==
    /\ IsMessageOptionsBuilder
    /\ builder' = [builder EXCEPT !.dynamic_entities = Some(e)]
    /\ args' = [method |-> "dynamic_entities", value |-> e]
    /\ result' = ReturnedSelf
    /\ UNCHANGED untouched

\* MessageOptionsBuilder::build()
MessageOptionsBuilder_build ==
    /\ IsMessageOptionsBuilder
    /\ result' = [kind |-> "Value", shape |-> "MessageOptions",
                  tag |-> builder.tag, n |-> builder.n,
                  context |-> builder.context,
                  dynamic_entities |-> builder.dynamic_entities]
    /\ builder' = Moved
    /\ args' = [method |-> "build"]
    /\ UNCHANGED untouched

\* format!("limit for getting utterances must be between 1 and 10000
\* inclusive, got {}", limit)
UtterancesLimitMessage(given) ==
    B(<<"l","i","m","i","t"," ","f","o","r"," ","g","e","t","t","i","n","g"," ",
        "u","t","t","e","r","a","n","c","e","s"," ","m","u","s","t"," ","b","e"," ",
        "b","e","t","w","e","e","n"," ","1"," ","a","n","d"," ","1","0","0","0","0"," ",
        "i","n","c","l","u","s","i","v","e",","," ","g","o","t"," ">>) \o to_string(given)

\* limit: u32
UtterancesLimits == {0, 1, 100, 10000, 10001, 2147483647}

\* offset: u32
Offsets == {0, 7}

\* intents: Vec<String>
IntentLists == {<<>>, <<B(<<"a">>)>>, <<B(<<"a">>), B(<<"b">>)>>}

\* [String]::join(sep)
RECURSIVE join(_, _)
join(v, sep) ==
    IF v = <<>> THEN <<>>
    ELSE IF Len(v) = 1 THEN v[1]
    ELSE v[1] \o sep \o join(Tail(v), sep)

IsGetUtterancesRequestBuilder == builder.type = "GetUtterancesRequestBuilder"

\* A new that lets a limit of zero through.
GetUtterancesRequestBuilder_new_from_zero(l) ==
    /\ builder.type = "none"
    /\ args' = [method |-> "GetUtterancesRequestBuilder::new", value |-> l]
    /\ IF l > 10000
       THEN result' = InvalidArgument(UtterancesLimitMessage(l)) /\ builder' = builder
       ELSE /\ builder' = [type |-> "GetUtterancesRequestBuilder", limit |-> l,
                           offset |-> None, intents |-> None]
            /\ result' = OkSelf
    /\ UNCHANGED untouched

\* GetUtterancesRequestBuilder::new(limit)
GetUtterancesRequestBuilder_new(l) ==
    /\ builder.type = "none"
    /\ args' = [method |-> "GetUtterancesRequestBuilder::new", value |-> l]
    /\ IF l < 1 \/ l > 10000
       THEN result' = InvalidArgument(UtterancesLimitMessage(l)) /\ builder' = builder
       ELSE /\ builder' = [type |-> "GetUtterancesRequestBuilder", limit |-> l,
                           offset |-> None, intents |-> None]
            /\ result' = OkSelf
    /\ UNCHANGED untouched

\* GetUtterancesRequestBuilder::offset(offset)
offset(o) ==
    /\ IsGetUtterancesRequestBuilder
    /\ builder' = [builder EXCEPT !.offset = Some(o)]
    /\ args' = [method |-> "offset", value |-> o]
    /\ result' = ReturnedSelf
    /\ UNCHANGED untouched

\* GetUtterancesRequestBuilder::intents(intents)
intents(v) ==
    /\ IsGetUtterancesRequestBuilder
    /\ builder' = [builder EXCEPT !.intents = Some(v)]
    /\ args' = [method |-> "intents", value |-> v]
    /\ result' = ReturnedSelf
    /\ UNCHANGED untouched

\* The url_params build() pushes, in the order it pushes them.
url_params(b) ==
    <<   <<B(<<"l","i","m","i","t">>), to_string(b.limit)>>   >>
    \o (IF b.offset.some
        THEN << <<B(<<"o","f","f","s","e","t">>), to_string(b.offset.v)>> >>
        ELSE <<>>)
    \o (IF b.intents.some
        THEN << <<B(<<"i","n","t","e","n","t","s">>), join(b.intents.v, B(<<",">>))>> >>
        ELSE <<>>)

\* GetUtterancesRequestBuilder::build()
GetUtterancesRequestBuilder_build ==
    /\ IsGetUtterancesRequestBuilder
    /\ result' = [kind |-> "Value", shape |-> "GetUtterancesRequest",
                  url_params |-> url_params(builder)]
    /\ builder' = Moved
    /\ args' = [method |-> "build"]
    /\ UNCHANGED untouched

BuilderNext ==
    \/ MessageOptionsBuilder_new
    \/ \E t \in Tags : tag(t)
    \/ \E l \in MessageLimits : limit(l)
    \/ \E c \in Contexts : context(c)
    \/ \E e \in DynamicEntitiesValues : dynamic_entities(e)
    \/ MessageOptionsBuilder_build
    \/ \E l \in UtterancesLimits : GetUtterancesRequestBuilder_new(l)
    \/ \E o \in Offsets : offset(o)
    \/ \E v \in IntentLists : intents(v)
    \/ GetUtterancesRequestBuilder_build

BuilderSpec == BuilderInit /\ [][BuilderNext]_vars

\* The stream in the hands of a caller that pulls until it ends
\* (result.for_each(process).await): the caller takes every item that is
\* ready, and the transport reports the end of a body it has delivered.
NextPulling ==
    \/ \E n \in 0..(Len(body) - pos) : GoodChunk(n)
    \/ FailedChunk
    \/ Yield
    \/ SourceEnd

LiveSpec == Init /\ [][NextPulling]_vars /\ WF_vars(Yield) /\ WF_vars(SourceEnd)

(***************************************************************************)
(* What the claims speak of                                                *)
(***************************************************************************)
\* The results of a sequence of items, as the caller sees them.
Results(items) == [k \in DOMAIN items |-> items[k].res]

\* The bytes an item or a tried document was cut from.
DocBytes(d) == SubSeq(body, d.lo + 1, d.hi)

IsDocument(item) == item.via # "transport"

\* The positions of r at which a CR LF ends.
DelimiterEnds(r) == {h \in 2..Len(r) : r[h - 1] = 13 /\ r[h] = 10}

\* Where the document that ends with the delimiter at h starts (0-based).
DocStart(r, h) ==
    IF \E g \in DelimiterEnds(r) : g < h
    THEN CHOOSE g \in DelimiterEnds(r) : g < h /\ \A f \in DelimiterEnds(r) : f < h => f <= g
    ELSE 0

\* The byte string b as its delimiter-terminated documents and what follows
\* the last delimiter.
RECURSIVE SplitAtCRLF(_)
SplitAtFirst(b, ends) ==
    IF ends = {} THEN <<b>>
    ELSE <<SubSeq(b, 1, FirstOf(ends))>> \o SplitAtCRLF(From(b, FirstOf(ends) + 1))

SplitAtCRLF(b) == SplitAtFirst(b, DelimiterEnds(b))

\* What each of the documents docs resolves to, one after the other.
RECURSIVE ResolveAll(_, _)
ResolveAll(ep, docs) ==
    IF docs = <<>> THEN <<>> ELSE Resolve(ep, Head(docs)) \o ResolveAll(ep, Tail(docs))

AllOk(results) == \A k \in DOMAIN results : results[k].kind = "Ok"

\* N delimiter-terminated documents and a last one that ends in LF '}', each
\* of which is a response of the endpoint.
WellFramedDocs(ep, docs) ==
    /\ ends_with(docs[Len(docs)], terminal_suffix)
    /\ Len(ResolveAll(ep, docs)) = Len(docs)
    /\ AllOk(ResolveAll(ep, docs))

WellFramed(ep, b) == WellFramedDocs(ep, SplitAtCRLF(b))

\* The stream ended after a run in which every chunk was good and non-empty.
FinishedPlain == consumer = "finished" /\ failedChunks = 0 /\ emptyChunks = 0

\* C1: for a body of N documents each terminated by CR LF and a last document
\* ending in LF '}', every split into chunks yields exactly the N+1 parsed
\* documents, in order.
C1_EverySplitYieldsEachDocumentOnce ==
    (FinishedPlain /\ WellFramed(endpoint, body))
        => Results(out) = ResolveAll(endpoint, SplitAtCRLF(body))

\* C2: any two splits of the same bytes into chunks (empty chunks included)
\* produce the same documents; stated against the split into one chunk.
C2_EverySplitDecodesLikeOneChunk ==
    (consumer = "finished" /\ failedChunks = 0)
        => Results(out) = Results(MapChunk(endpoint, <<>>, 0, body).items)

\* C3: the buffer is the unconsumed tail of the bytes received, and no byte of
\* a document already emitted, at a delimiter or as the last document, is
\* still in it.
C3_BufferHoldsNoEmittedByte ==
    consumer # "dropped" =>
        /\ buffer = From(received, drained + 1)
        /\ \A k \in DOMAIN Emitted : IsDocument(Emitted[k]) => Emitted[k].hi <= drained

\* C4: the byte ranges of the documents handed to the resolver are pairwise
\* disjoint.
C4_DocumentsAreDisjoint ==
    \A i, j \in DOMAIN tried :
        i < j => (tried[i].hi <= tried[j].lo \/ tried[j].hi <= tried[i].lo)

\* C5: if document A ends before document B begins in the bytes received, the
\* item of A precedes the item of B on the output, within a feed and across
\* feeds.
C5_ItemsInByteOrder ==
    \A i, j \in DOMAIN Emitted :
        (IsDocument(Emitted[i]) /\ IsDocument(Emitted[j])
         /\ Emitted[i].hi <= Emitted[j].lo) => i < j

\* C5's case: a delimiter-terminated document and a later last document, the
\* two delivered in this order.
C5_Witness ==
    /\ Len(out) >= 2
    /\ out[1].via = "delimiter" /\ out[2].via = "terminal"
    /\ out[1].hi <= out[2].lo

\* A good chunk is fed in this step.
FeedStep == pos' > pos \/ emptyChunks' > emptyChunks

\* The items among `items` cut from the bytes lo+1..hi.
ItemsOf(items, lo, hi) == {k \in DOMAIN items : items[k].lo = lo /\ items[k].hi = hi}

Overlaps(item, lo, hi) == IsDocument(item) /\ item.lo < hi /\ lo < item.hi

\* The document lo+1..hi is completed by this feed: it is emitted by this feed,
\* once and whole, and no part of it by another.
EmittedWholeOnce(lo, hi) ==
    /\ Cardinality(ItemsOf(inner', lo, hi))
         = Len(Resolve(endpoint, SubSeq(body, lo + 1, hi)))
    /\ \A k \in DOMAIN inner' : Overlaps(inner'[k], lo, hi) => k \in ItemsOf(inner', lo, hi)
    /\ \A k \in DOMAIN out : ~Overlaps(out[k], lo, hi)

\* C6: a document is emitted whole and exactly once, by the feed that receives
\* the last byte of its delimiter, however many chunks it spans and however
\* many delimiters the chunk holds.
C6_DocumentEmittedOnceByCompletingFeed ==
    [][FeedStep =>
         \A h \in DelimiterEnds(received') :
             h > pos => EmittedWholeOnce(DocStart(received', h), h)]_vars

\* C7: on the dictation stream a document that does not deserialize yields no
\* item, and every item that comes from a good chunk is an Ok value.
C7_DictationDiscardsFailures ==
    endpoint = "dictation" =>
        /\ \A k \in DOMAIN Emitted : IsDocument(Emitted[k]) => Emitted[k].res.kind = "Ok"
        /\ \A k \in DOMAIN tried :
              ~from_slice_DictationResponse(DocBytes(tried[k])).ok
                 => ~\E j \in DOMAIN Emitted :
                        /\ Emitted[j].lo = tried[k].lo
                        /\ Emitted[j].hi = tried[k].hi
                        /\ Emitted[j].via = tried[k].via

\* C7's case: the dictation stream ended after a document that did not
\* deserialize and one that did.
C7_Witness ==
    /\ endpoint = "dictation"
    /\ consumer = "finished"
    /\ Len(out) = 1 /\ out[1].res.kind = "Ok"
    /\ \E k \in DOMAIN tried : ~from_slice_DictationResponse(DocBytes(tried[k])).ok

\* One well-formed dictation document, its delimiter, and a tail that is not
\* a document.
GoodThenTruncatedDocs(docs) ==
    /\ Len(docs) = 2
    /\ from_slice_DictationResponse(docs[1]).ok
    /\ docs[2] # <<>>
    /\ ~from_slice_DictationResponse(docs[2]).ok

GoodThenTruncated(b) == GoodThenTruncatedDocs(SplitAtCRLF(b))

\* C8: on the dictation stream, a well-formed document followed by a truncated
\* one that is never completed yields exactly one item, the well-formed
\* document, whatever the chunking.
C8_GoodThenTruncatedYieldsOneItem ==
    (endpoint = "dictation" /\ FinishedPlain /\ GoodThenTruncated(body))
        => (Len(out) = 1 /\ out[1].res.kind = "Ok")

\* What C9 says of one item, u and t being its bytes read as
\* UnderstandingResponse and as TranscriptionResponse.
UnderstandingFirst(item, u, t) ==
    /\ u.ok => item.res = OkUnderstanding(u.text)
    /\ item.res.shape = "Understanding" => u.ok
    /\ item.res.shape = "Transcription" => (~u.ok /\ t.ok /\ item.res = OkTranscription(t.text))

\* C9: on the speech stream a document that deserializes as Understanding is
\* emitted as Understanding; Transcription is emitted only when the
\* Understanding attempt failed.
C9_UnderstandingBeforeTranscription ==
    endpoint = "speech" =>
        \A k \in DOMAIN Emitted :
            IsDocument(Emitted[k]) =>
                UnderstandingFirst(Emitted[k],
                    from_slice_UnderstandingResponse(DocBytes(Emitted[k])),
                    from_slice_TranscriptionResponse(DocBytes(Emitted[k])))

\* C9's case: an Understanding item whose bytes also deserialize as
\* Transcription, and a Transcription item.
C9_Witness ==
    /\ endpoint = "speech"
    /\ \E k \in DOMAIN out :
          /\ out[k].res.shape = "Understanding"
          /\ from_slice_TranscriptionResponse(DocBytes(out[k])).ok
    /\ \E k \in DOMAIN out : out[k].res.shape = "Transcription"

\* What C10 says of one item whose bytes d match no shape.
MalformedItem(item, d) ==
    item.res = IF from_utf8(d)
               THEN JSONParseError(d \o CouldNotBeParsedIntoJSON)
               ELSE JSONParseError(CouldNotBeParsedIntoUtf8)

MatchesNoShape(d) ==
    /\ ~from_slice_UnderstandingResponse(d).ok
    /\ ~from_slice_TranscriptionResponse(d).ok

DocumentItems == SelectSeq(Emitted, IsDocument)

SpeechShapes == {"Understanding", "Transcription", "JSONParseError"}

FailStep == failedChunks' > failedChunks

IsTransportError(item) == item.via = "transport" /\ item.res = ResponseParseError

\* C12: a failed chunk yields exactly one transport-error item and nothing
\* else, and the stream does not end with it: the caller is still pulling and
\* the buffer is as it was, so the chunks that follow are mapped as before.
C12_FailedChunkYieldsOneErrorAndContinues ==
    [][FailStep =>
          /\ Len(inner') = 1 /\ IsTransportError(inner'[1])
          /\ out' = out /\ tried' = tried /\ buffer' = buffer
          /\ consumer' = "pulling"]_vars

\* C12's case: the caller got the transport error and, after it, an item of
\* a chunk that came later.
C12_Witness ==
    \E k \in DOMAIN out :
        /\ IsTransportError(out[k])
        /\ \A j \in 1..(k - 1) : IsDocument(out[j]) /\ out[j].hi < Len(body)
        /\ \E j \in (k + 1)..Len(out) : IsDocument(out[j]) /\ out[j].hi = Len(body)

IsPrefix(a, b) == Len(a) <= Len(b) /\ SubSeq(b, 1, Len(a)) = a

\* The items this step adds to those produced so far.
Added == SubSeq(Emitted', Len(Emitted) + 1, Len(Emitted'))

\* C13: with good chunks, then a transport failure, then further good chunks,
\* the output is the items of the chunks before the failure, then exactly one
\* transport-error item, then the items of the chunks after it: every step
\* only adds at the end of what was produced, the failure adds the one error
\* item and a good chunk adds only items of documents.
C13_ErrorBetweenEarlierAndLaterItems ==
    [][consumer' # "dropped" =>
          /\ IsPrefix(Emitted, Emitted')
          /\ FailStep => (Len(Added) = 1 /\ IsTransportError(Added[1]))
          /\ ~FailStep => \A k \in DOMAIN Added : IsDocument(Added[k])]_vars

\* C13's case: the stream ended with items of earlier chunks, one transport
\* error, and items of later chunks, in this order.
C13_Witness ==
    /\ consumer = "finished"
    /\ failedChunks = 1
    /\ \E k \in DOMAIN out :
          /\ IsTransportError(out[k])
          /\ k > 1 /\ k < Len(out)
          /\ \A j \in DOMAIN out : j # k => IsDocument(out[j])

\* C14: once the source has delivered its last byte, a caller that keeps
\* pulling sees the stream end, after the items of the last chunk; the end
\* adds no item, and nothing follows it.
C14_EndsWithoutMarker ==
    /\ (pos = Len(body)) ~> (consumer = "finished")
    /\ [][consumer' = "finished" => (inner = <<>> /\ inner' = <<>> /\ out' = out)]_vars

\* C14's case: the stream has ended and the caller holds the item of the
\* last chunk.
C14_Witness ==
    /\ consumer = "finished"
    /\ out # <<>>
    /\ out[Len(out)].hi = Len(body)

\* The dictation stream has received the first `first` bytes of the body b in
\* good chunks and this step delivers all the rest as one chunk.
LastOfTwoChunks(b, first) ==
    /\ endpoint = "dictation" /\ body = b
    /\ failedChunks' = 0 /\ emptyChunks' = 0
    /\ pos = first /\ pos' = Len(b)

\* Two items, text "a" then text "b", the second as the last document.
YieldsAThenB(items) ==
    /\ Len(items) = 2
    /\ items[1].res = OkDictation(B(<<"a">>))
    /\ items[2].res = OkDictation(B(<<"b">>))
    /\ items[2].via = "terminal"

\* C15 as stated: the chunks {"text":"a"} CR LF and {"text":"b"} LF '}' on the
\* single-shape stream yield two items, text "a" then text "b", the second
\* through the terminal-document attempt.
C15_TextScenarioYieldsAThenB ==
    [][LastOfTwoChunks(TextAMin \o CRLF \o TextBBrace, Len(TextAMin \o CRLF))
          => YieldsAThenB(Emitted')]_vars

\* C15, amended: the chunks A CR LF and B, A and B complete dictation
\* documents with texts "a" and "b" and B ending in LF '}', yield two items,
\* text "a" then text "b", the second through the terminal-document attempt.
C15_DictationScenarioYieldsAThenB ==
    [][LastOfTwoChunks(DictationA \o CRLF \o DictationB, Len(DictationA \o CRLF))
          => YieldsAThenB(Emitted')]_vars

\* C15's case: the two dictation documents have been fed and both items are
\* out, the second cut by the terminal-document attempt.
C15_Witness ==
    /\ endpoint = "dictation"
    /\ body = DictationA \o CRLF \o DictationB
    /\ pos = Len(body) /\ drained = Len(DictationA \o CRLF)
    /\ failedChunks = 0 /\ emptyChunks = 0
    /\ YieldsAThenB(out)

DictationItems == {"DictationResponse", "ResponseParseError"}

SpeechItems == SpeechShapes \cup {"ResponseParseError"}

\* What the stream of the endpoint may hand to its caller.
IsTypedItem(item) ==
    /\ item.res.kind \in {"Ok", "Err"}
    /\ item.res.shape \in (IF endpoint = "dictation" THEN DictationItems ELSE SpeechItems)

\* C16: no chunk makes the closure panic or ends the stream: every feed
\* completes, the scan start stays within the buffer (the bytes drained never
\* exceed the bytes received), and whatever was detected is a typed item or
\* nothing.
C16_NoPanic ==
    /\ consumer # "panicked"
    /\ drained <= pos
    /\ Len(buffer) <= pos - drained
    /\ \A k \in DOMAIN Emitted : IsTypedItem(Emitted[k])

\* C16's case: after an empty chunk and a failed chunk, the buffer holds a
\* byte that is not UTF-8 and a CR whose LF has not come, two delimiters
\* behind it.
C16_Witness ==
    /\ consumer = "pulling"
    /\ emptyChunks > 0 /\ failedChunks > 0
    /\ buffer = <<255, 13>>
    /\ drained = 3

\* C17: when the caller drops the stream, the buffer and what was not yet
\* yielded go with it, and from then on no chunk is pulled, no document is
\* cut or resolved and no item is produced.
C17_NothingAfterDrop ==
    [][/\ consumer' = "dropped" => (buffer' = <<>> /\ inner' = <<>>)
       /\ consumer = "dropped" =>
              /\ consumer' = "dropped"
              /\ pos' = pos /\ emptyChunks' = emptyChunks /\ failedChunks' = failedChunks
              /\ tried' = tried /\ drained' = drained
              /\ out' = out]_vars

\* C17's case: the caller dropped the stream in the middle of the body, with
\* an item in hand and bytes in the buffer a moment before.
C17_Witness ==
    /\ consumer = "dropped"
    /\ out # <<>>
    /\ drained < pos /\ pos < Len(body)
    /\ buffer = <<>> /\ inner = <<>>

\* C18: an error envelope the service returns for a dictation or speech call
\* is not decoded as a stream: none of its bytes is fed to the splitter or to
\* the resolver.
C18_EnvelopeNotDecoded ==
    status # 200 => (pos = 0 /\ buffer = <<>> /\ tried = <<>> /\ Emitted = <<>>)

\* make_request has classified the response.
Responded == result.shape \in {"LanguageResponse", "WitError", "ResponseParseError"}

\* What C19 says of the result, t and e being the body read as the
\* operation's type and as an error envelope.
ClassifiedByStatus(t, e) ==
    /\ (status = 200 /\ t.ok) => result = OkResponse("LanguageResponse", t.v)
    /\ (status # 200 /\ e.ok) => result = FromErrorResponse(e.v)
    /\ status # 200 => result.kind # "Ok"
    /\ status = 200 => result.shape # "WitError"

\* C19: a response with status 200 is read as the operation's type and, read,
\* returned as Ok; a response with any other status is read as an error
\* envelope and, read, returned as Err(WitError); Ok is never returned for a
\* status other than 200, nor WitError for status 200.
C19_StatusDecidesOkOrWitError ==
    Responded =>
        ClassifiedByStatus(json("LanguageResponse", body), json("ErrorResponse", body))

\* C19's case: a response with a status other than 200 whose body would read
\* as the operation's type came back as Err(WitError).
C19_Witness ==
    /\ status = 201
    /\ json("LanguageResponse", body).ok
    /\ result.shape = "WitError"

\* C20: language returns Err(InvalidArgument) and sends nothing when limit is
\* outside 1..=8, and for a limit within it sends exactly one GET /language
\* with q = query and n = limit.
C20_LanguageLimit ==
    [][/\ ~(args.limit \in 1..8) =>
              (requests' = <<>> /\ result' = InvalidArgument(LimitMessage(args.limit)))
       /\ args.limit \in 1..8 =>
              /\ result'.shape # "InvalidArgument"
              /\ requests' = <<[method |-> "GET", endpoint |-> "/language",
                                url_params |-> << <<B(<<"q">>), args.query>>,
                                                  <<B(<<"n">>), <<48 + args.limit>> >> >>]>>]_vars

\* C20's case: the largest limit allowed went out as n=8 in one request, and
\* the call returned the response.
C20_Witness ==
    /\ endpoint = "language"
    /\ args.limit = 8
    /\ Len(requests) = 1
    /\ requests[1].url_params[2] = <<B(<<"n">>), B(<<"8">>)>>
    /\ result.kind = "Ok"

\* C21: limit(limit) returns Ok with n set to limit exactly when limit is in
\* 1..=8 and Err(InvalidArgument) otherwise, so every MessageOptions built has
\* n unset or within 1..=8 whatever setters were called before.
C21_MessageLimit ==
    /\ args.method = "limit" =>
          IF args.value \in 1..8
          THEN /\ result = OkSelf
               /\ IsMessageOptionsBuilder
               /\ builder.n = Some(args.value)
          ELSE /\ result.kind = "Err"
               /\ result.shape = "InvalidArgument"
               /\ builder = Moved
    /\ result.shape = "MessageOptions" =>
          (result.n = None \/ (result.n.some /\ result.n.v \in 1..8))

\* C21's case: options were built after limit(8) and the other setters.
C21_Witness ==
    /\ result.shape = "MessageOptions"
    /\ result.n = Some(8)
    /\ result.tag.some
    /\ result.context.some
    /\ result.dynamic_entities.some

\* The number a text of decimal digits writes.
RECURSIVE DecimalValue(_)
DecimalValue(digits) ==
    IF digits = <<>> THEN 0
    ELSE 10 * DecimalValue(SubSeq(digits, 1, Len(digits) - 1)) + (digits[Len(digits)] - 48)

\* The names of a request's parameters, in order.
Names(params) == [k \in DOMAIN params |-> params[k][1]]

\* The value a request carries under a name it carries once.
ValueOf(params, name) == params[CHOOSE k \in DOMAIN params : params[k][1] = name][2]

\* The texts between the commas of a text.
RECURSIVE SplitAtComma(_)
SplitAtComma(text) ==
    IF \E k \in DOMAIN text : text[k] = 44
    THEN LET k == CHOOSE i \in DOMAIN text : text[i] = 44 /\ \A j \in 1..(i - 1) : text[j] # 44
         IN  <<SubSeq(text, 1, k - 1)>> \o SplitAtComma(SubSeq(text, k + 1, Len(text)))
    ELSE <<text>>

\* C22: GetUtterancesRequestBuilder::new(limit) succeeds exactly when limit is
\* in 1..=10000 and returns Err(InvalidArgument) otherwise; every request built
\* carries limit, in that range, first, then offset and intents (joined with
\* commas) only when they were set.
C22_UtterancesRequest ==
    [][/\ args'.method = "GetUtterancesRequestBuilder::new" =>
             IF args'.value \in 1..10000
             THEN /\ result' = OkSelf
                  /\ builder'.type = "GetUtterancesRequestBuilder"
                  /\ builder'.limit = args'.value
             ELSE /\ result'.kind = "Err"
                  /\ result'.shape = "InvalidArgument"
                  /\ builder' = NoBuilder
       /\ (IsGetUtterancesRequestBuilder /\ result'.shape = "GetUtterancesRequest") =>
             /\ Names(result'.url_params) =
                    << B(<<"l","i","m","i","t">>) >>
                    \o (IF builder.offset.some THEN << B(<<"o","f","f","s","e","t">>) >> ELSE <<>>)
                    \o (IF builder.intents.some THEN << B(<<"i","n","t","e","n","t","s">>) >> ELSE <<>>)
             /\ DecimalValue(result'.url_params[1][2]) = builder.limit
             /\ DecimalValue(result'.url_params[1][2]) \in 1..10000
             /\ builder.offset.some =>
                    DecimalValue(ValueOf(result'.url_params, B(<<"o","f","f","s","e","t">>)))
                        = builder.offset.v
             /\ builder.intents.some =>
                    IF builder.intents.v = <<>>
                    THEN ValueOf(result'.url_params, B(<<"i","n","t","e","n","t","s">>)) = <<>>
                    ELSE SplitAtComma(ValueOf(result'.url_params, B(<<"i","n","t","e","n","t","s">>)))
                             = builder.intents.v]_vars

\* C22's case: a request was built from the largest limit allowed, an offset
\* and two intents, and carries the three parameters in order.
C22_Witness ==
    /\ result.shape = "GetUtterancesRequest"
    /\ result.url_params = << <<B(<<"l","i","m","i","t">>), B(<<"1","0","0","0","0">>)>>,
                              <<B(<<"o","f","f","s","e","t">>), B(<<"7">>)>>,
                              <<B(<<"i","n","t","e","n","t","s">>), B(<<"a",",","b">>)>> >>

\* Where the last CR LF of r at or before position h ends (0 when there is
\* none).
RECURSIVE LastDelimiterEnd(_, _)
LastDelimiterEnd(r, h) ==
    IF h < 2 THEN 0
    ELSE IF r[h - 1] = 13 /\ r[h] = 10 THEN h
    ELSE LastDelimiterEnd(r, h - 1)

\* The bytes of r that follow its last CR LF.
Remainder(r) == From(r, LastDelimiterEnd(r, Len(r)) + 1)

\* The feed left `rest` in the buffer and, after one attempt for each
\* delimiter among the bytes it scanned, tried `rest` as the last document.
TriedAndKept(rest, scanned) ==
    /\ buffer' = rest
    /\ Len(tried') = Len(tried) + Cardinality(DelimiterEnds(scanned)) + 1
    /\ tried'[Len(tried')] = [lo |-> pos' - Len(rest), hi |-> pos', via |-> "terminal"]

TailMatches(rest, scanned) ==
    ends_with(rest, terminal_suffix) => TriedAndKept(rest, scanned)

\* C23: a feed after which the bytes left over behind the last delimiter end
\* in LF '}' tries them as a document and leaves them in the buffer, parsed or
\* not; so every such feed, a later one over the same bytes included, tries
\* them again.
C23_TerminalAttemptKeepsBuffer ==
    [][FeedStep =>
           TailMatches(Remainder(received'), buffer \o SubSeq(body, pos + 1, pos'))]_vars

\* C23's case: the same bytes were tried as the last document by two feeds
\* and are still in the buffer.
C23_Witness ==
    /\ buffer # <<>>
    /\ \E i, j \in DOMAIN tried :
          /\ i < j
          /\ tried[i].via = "terminal" /\ tried[j].via = "terminal"
          /\ tried[i].lo = tried[j].lo
          /\ tried[j].lo = drained
          /\ buffer = DocBytes(tried[j])

\* The documents this step handed to the resolver.
NewlyTried == SubSeq(tried', Len(tried) + 1, Len(tried'))

\* The positions of the items of a last-document attempt among `items`.
TerminalItems(items) == {k \in DOMAIN items : items[k].via = "terminal"}

\* The bytes parse as a response of the endpoint.
Parses(ep, bytes) ==
    IF ep = "dictation"
    THEN from_slice_DictationResponse(bytes).ok
    ELSE from_slice_UnderstandingResponse(bytes).ok
             \/ from_slice_TranscriptionResponse(bytes).ok

\* This feed tries a last document exactly when the buffer it leaves ends in
\* LF '}', and tries it after the delimited documents.
AttemptExactlyOnTail ==
    {k \in DOMAIN NewlyTried : NewlyTried[k].via = "terminal"}
        = IF ends_with(buffer', terminal_suffix) THEN {Len(NewlyTried)} ELSE {}

\* An item of the last-document attempt is cut from the whole buffer and is
\* the last item of the feed's output.
TerminalItemLast ==
    \A k \in TerminalItems(inner') :
        /\ k = Len(inner')
        /\ inner'[k].lo = drained'
        /\ inner'[k].hi = drained' + Len(buffer')

IsDelimited(d) == d.via = "delimiter"

\* The documents handed to the resolver because a delimiter ended them.
DelimiterTried == SelectSeq(tried, IsDelimited)

\* C25: every CR LF of the bytes received ends one document, which runs from
\* the end of the delimiter before it (or the start) through the delimiter
\* itself, in the order of the bytes, whatever the bytes between are: empty
\* and garbage slices are cut and passed over like any other.
C25_EveryDelimiterEndsADocument ==
    /\ Len(DelimiterTried) = Cardinality(DelimiterEnds(received))
    /\ \A k \in DOMAIN DelimiterTried :
          /\ DelimiterTried[k].hi \in DelimiterEnds(received)
          /\ DelimiterTried[k].lo = DocStart(received, DelimiterTried[k].hi)
          /\ k > 1 => DelimiterTried[k - 1].hi = DelimiterTried[k].lo

\* C25's case: a garbage slice, a slice that is not UTF-8 and an empty slice
\* were cut one after the other, and the scan went on behind them.
C25_Witness ==
    /\ Len(DelimiterTried) = 3
    /\ ParseDocument(DocBytes(DelimiterTried[1])).ok = FALSE
    /\ ~from_utf8(DocBytes(DelimiterTried[2]))
    /\ DocBytes(DelimiterTried[3]) = CRLF
    /\ drained = DelimiterTried[3].hi

\* C26: once a good chunk is fed, every document scanned to its delimiter
\* is gone from the buffer: the buffer is what was received behind the last
\* CR LF, and holds no complete CR LF.
C26_BufferIsBehindLastDelimiter ==
    consumer # "dropped" =>
        /\ buffer = Remainder(received)
        /\ DelimiterEnds(buffer) = {}

\* C26's case: documents were drained and the buffer holds the bytes behind
\* them, the CR of a delimiter whose LF has not arrived among them.
C26_Witness ==
    /\ drained > 0
    /\ buffer # <<>>
    /\ buffer[Len(buffer)] = 13
    /\ buffer = Remainder(received)

\* The last thing the stream did was to hand over a transport error, with
\* part of a document in the buffer.
JustFailedMidDocument ==
    /\ inner = <<>>
    /\ out # <<>>
    /\ out[Len(out)].via = "transport"
    /\ buffer # <<>>

\* The first document of this feed is cut from `joined`, the buffer and the
\* chunk together, up to the delimiter that ends at h, and its items lead
\* the feed's output.
FirstDocumentAssembled(joined, h, items) ==
    /\ tried'[Len(tried) + 1] = [lo |-> drained, hi |-> drained + h, via |-> "delimiter"]
    /\ SubSeq(body, drained + 1, drained + h) = SubSeq(joined, 1, h)
    /\ Len(inner') >= Len(items)
    /\ SubSeq(inner', 1, Len(items)) = Tagged(items, drained, drained + h, "delimiter")

SpanningDocumentAssembled(joined) ==
    DelimiterEnds(joined) # {} =>
        FirstDocumentAssembled(joined, FirstOf(DelimiterEnds(joined)),
            Resolve(endpoint, SubSeq(joined, 1, FirstOf(DelimiterEnds(joined)))))

\* C27: a failed chunk leaves the buffer as it was, and the document whose
\* first bytes were in the buffer at the failure is cut from them and the
\* bytes of later chunks when its delimiter arrives, and resolved as one
\* document.
C27_FailureKeepsBuffer ==
    [][/\ FailStep => (buffer' = buffer /\ drained' = drained)
       /\ (FeedStep /\ JustFailedMidDocument) =>
              SpanningDocumentAssembled(buffer \o SubSeq(body, pos + 1, pos'))]_vars

\* C27's case: a chunk failed while the first bytes of a document were in the
\* buffer; the error is about to be handed over and the bytes are still there.
C27_Witness ==
    /\ body = DictationA \o CRLF \o DictationB
    /\ 0 < pos /\ pos < Len(DictationA)
    /\ failedChunks = 1
    /\ Len(inner) = 1 /\ inner[1].via = "transport"
    /\ buffer = received

\* The bytes of the documents docs, one after the other.
RECURSIVE Concatenated(_)
Concatenated(docs) ==
    IF docs = <<>> THEN <<>> ELSE DocBytes(Head(docs)) \o Concatenated(Tail(docs))

\* C28: the slices cut at delimiters and handed to the resolver so far, one
\* after the other, followed by the buffer, are the good bytes received so
\* far: splitting loses, invents and reorders no byte.
C28_BytesConserved ==
    consumer # "dropped" =>
        /\ Concatenated(DelimiterTried) \o buffer = received
        /\ \A k \in DOMAIN DelimiterTried : DelimiterTried[k].lo <= DelimiterTried[k].hi

\* C28's case: every byte of a body of three delimited slices and a rest has
\* been received, over a failed chunk, and the rest has been tried as the last
\* document.
C28_Witness ==
    /\ pos = Len(body)
    /\ Len(DelimiterTried) = 3
    /\ buffer = B(<<"\n","}">>)
    /\ failedChunks = 1
    /\ tried[Len(tried)].via = "terminal"

\* What is in the buffer was tried as the last document by some feed.
BufferTried == \E k \in DOMAIN tried : tried[k].via = "terminal" /\ tried[k].lo = drained

\* No item, value or error, was cut from bytes behind the position `from`.
NothingBehind(from) == \A k \in DOMAIN Emitted : IsDocument(Emitted[k]) => Emitted[k].hi <= from

\* C29: when the source has ended, bytes left in the buffer that no CR LF
\* followed and that no feed found to end in LF '}' have produced no item, on
\* either endpoint; a last document that does not end in LF '}' is not
\* emitted.
C29_UnterminatedRestYieldsNothing ==
    consumer = "finished" =>
        /\ ~BufferTried => NothingBehind(drained)
        /\ (~ends_with(body, terminal_suffix) /\ Remainder(body) # <<>>) =>
               \A k \in DOMAIN Emitted : IsDocument(Emitted[k]) => Emitted[k].hi < Len(body)

\* C29's case: the source ended with a document cut short in the buffer, and
\* the only item is the one of the document before it.
C29_Witness ==
    /\ consumer = "finished"
    /\ buffer = Truncated
    /\ ~BufferTried
    /\ Len(out) = 1
    /\ out[1].hi = drained

IsErr(item) == item.res.kind = "Err"

\* The Err items produced so far, in order.
ErrItems == SelectSeq(Emitted, IsErr)

====
